---- MODULE Spec2Model ----
(***************************************************************************)
(* Model of yellowstone-grpc-tools/src/scylladb/sink.rs: the ScyllaDB sink *)
(* (producer lock, offset recovery, round-robin dispatcher, shard daemons, *)
(* facade).  One producer id; the sink processes that compete for it are   *)
(* the elements of Sinks.  Database tables are global, everything else is  *)
(* per sink process and is lost when the process crashes.                  *)
(***************************************************************************)
EXTENDS Integers, Sequences, FiniteSets, TLC

(* ------------------------------ bounds -------------------------------- *)
\* number of shards of the producer (producer_info.num_shards)
NumShards == 2
\* total number of log_account_update / log_transaction calls, all runs
MaxEvents == 4
\* number of inner_log calls accepted in the behaviours with failing database requests
MaxEventsErr == 3
\* highest slot of an event
MaxSlot == 1
\* total number of lock rows inserted (successful starts), all sink processes
MaxStarts == 2
\* number of rows of each table in the arbitrary tables offset recovery is tried on
MaxRows == 2
\* SHARD_OFFSET_MODULO (types.rs), scaled down
SHARD_OFFSET_MODULO == 2
\* DEFAULT_SHARD_MAX_BUFFER_CAPACITY (15 in the source), scaled down
DEFAULT_SHARD_MAX_BUFFER_CAPACITY == 2
\* events of a burst: one more than fills the buffer of every shard
BurstEvents == NumShards * DEFAULT_SHARD_MAX_BUFFER_CAPACITY + 1
\* capacity of a shard mailbox (16 in the source), scaled down
SHARD_MAILBOX_CAPACITY == 1
\* config.batch_size_kb_limit * 1024, scaled down
max_buffer_byte_size == 4
\* largest deep_size_of() of an event
MaxEventSize == 3

Sinks == {"A", "B"}
Shards == 0..(NumShards - 1)
OK == "ok"
ERR == "err"

VARIABLES
    producer_lock,              \* table producer_lock: 0 (no row) or the row's lock_id
    producer_period_commit_log, \* table: set of <<shard_id, period>>
    log,                        \* table log: per shard the rows in the order they were written
    producer_slot_seen,         \* table: set of slots
    uuid,                       \* number of lock ids inserted so far (Uuid::new_v4)
    nevents,                    \* number of events handed to a facade so far
    last_batch,                 \* per shard: the rows of the last session.batch call
    sink,                       \* per sink: facade state
    router,                     \* per sink: round-robin dispatcher task
    router_chan,                \* per sink: dispatcher input channel
    shard,                      \* per sink, per shard: the Shard daemon
    mailbox,                    \* per sink, per shard: the shard mailbox
    batch_request_lag           \* per sink process: the queued-batch-items gauge

vars == <<producer_lock, producer_period_commit_log, log, producer_slot_seen, uuid,
          nevents, last_batch, sink, router, router_chan, shard, mailbox,
          batch_request_lag>>

dbvars == <<producer_lock, producer_period_commit_log, log, producer_slot_seen>>

(* ----------------------------- commands ------------------------------- *)
Shutdown == [type |-> "Shutdown", id |-> 0, slot |-> -1, size |-> 0]

Insert(id, slot, size) == [type |-> "Insert", id |-> id, slot |-> slot, size |-> size]

(* --------------------------- pure helpers ----------------------------- *)
Period(offset) == offset \div SHARD_OFFSET_MODULO

as_blockchain_event(msg, offset, lock_id) ==
    [offset |-> offset, period |-> Period(offset), id |-> msg.id,
     size |-> msg.size, lock |-> lock_id]

Max(S) == CHOOSE x \in S : \A y \in S : y <= x

RECURSIVE SortByKey(_)
SortByKey(pairs) ==
    IF pairs = {} THEN <<>>
    ELSE LET m == CHOOSE p \in pairs : \A q \in pairs : p[1] <= q[1]
         IN  <<m>> \o SortByKey(pairs \ {m})

(* --------------------------- producer lock ---------------------------- *)
\* a blind INSERT
TRY_ACQUIRE_PRODUCER_LOCK_blind(row, lock_id) == [applied |-> TRUE, row |-> lock_id]

\* INSERT ... IF NOT EXISTS: the row after the statement and the [applied] column
TRY_ACQUIRE_PRODUCER_LOCK(row, lock_id) ==
    IF row = 0 THEN [applied |-> TRUE, row |-> lock_id]
               ELSE [applied |-> FALSE, row |-> row]

\* a DELETE without the IF
DROP_PRODUCER_LOCK_unchecked(row, lock_id) == 0

\* DELETE ... IF lock_id = ?: the row after the statement
DROP_PRODUCER_LOCK(row, lock_id) == IF row = lock_id THEN 0 ELSE row

(* -------------------------- offset recovery --------------------------- *)
\* shard_id IN (0, ..., num_shards - 1)
cql_shard_list(num_shards) == 0..(num_shards - 1)

\* ORDER BY period DESC PER PARTITION LIMIT 1, one row <<shard_id, period>> per partition
query_last_period_commit(commits, num_shards) ==
    {c \in commits : /\ c[1] \in cql_shard_list(num_shards)
                     /\ \A d \in commits : d[1] = c[1] => d[2] <= c[2]}

\* as current_period_foreach_shard, resuming in the committed period itself
current_period_foreach_shard_same(commits, num_shards) ==
    LET rows == query_last_period_commit(commits, num_shards)
        keys == {c[1] : c \in rows} \cup (0..(num_shards - 1))
    IN  [k \in keys |-> IF \E c \in rows : c[1] = k
                        THEN (CHOOSE c \in rows : c[1] = k)[2]
                        ELSE 0]

\* the BTreeMap shard_id -> period + 1, with 0 for each shard without a row
current_period_foreach_shard(commits, num_shards) ==
    LET rows == query_last_period_commit(commits, num_shards)
        keys == {c[1] : c \in rows} \cup (0..(num_shards - 1))
    IN  [k \in keys |-> IF \E c \in rows : c[1] = k
                        THEN (CHOOSE c \in rows : c[1] = k)[2] + 1
                        ELSE 0]

\* as max_offset_for_shard_period, the default one too far
max_offset_for_shard_period_first(rows, curr_period) ==
    LET found == {rows[k].offset : k \in {n \in 1..Len(rows) : rows[n].period = curr_period}}
    IN  IF found # {} THEN Max(found)
        ELSE curr_period * SHARD_OFFSET_MODULO

\* ORDER BY offset desc PER PARTITION LIMIT 1 on partition (shard, period), or the default
max_offset_for_shard_period(rows, curr_period) ==
    LET found == {rows[k].offset : k \in {n \in 1..Len(rows) : rows[n].period = curr_period}}
    IN  IF found # {} THEN Max(found)
        ELSE (curr_period * SHARD_OFFSET_MODULO) - 1

\* the vector of <<shard_id, last_offset>> (the length check is the caller's guard)
get_max_shard_offsets_for_producer(commits, logtable, num_shards) ==
    LET cur == current_period_foreach_shard(commits, num_shards)
        pairs == {<<k, max_offset_for_shard_period(
                         IF k \in DOMAIN logtable THEN logtable[k] ELSE <<>>, cur[k])>>
                  : k \in DOMAIN cur}
    IN  SortByKey(pairs)

(* ------------------------------- Init --------------------------------- *)
\* max_slot: the highest slot among the accepted events; log_result: the result of the
\* last log_* call
InitSink == [pc |-> "idle", lock_id |-> 0, accepted |-> <<>>, shard_offsets |-> <<>>,
             max_slot |-> -1, log_result |-> OK]

\* bg, bg_slot: the task behind the handle background_commit_max_slot_seen, its state
\* ("run" or its result) and slot; inflight: the slots of the spawned writes still running
InitRouter == [pc |-> "none", msg |-> Shutdown, i |-> 0, j |-> 0,
               max_slot_seen |-> -1, bg |-> OK, bg_slot |-> -1, inflight |-> {}]

InitShard == [pc |-> "none", next_offset |-> 0, first_offset |-> 0, buffer |-> <<>>,
              curr_batch_byte_size |-> 0, statements |-> 0, elapsed |-> 0]

InitProcess ==
    /\ sink = [i \in Sinks |-> InitSink]
    /\ router = [i \in Sinks |-> InitRouter]
    /\ router_chan = [i \in Sinks |-> <<>>]
    /\ shard = [i \in Sinks |-> [s \in Shards |-> InitShard]]
    /\ mailbox = [i \in Sinks |-> [s \in Shards |-> <<>>]]
    /\ uuid = 0
    /\ nevents = 0
    /\ last_batch = [s \in Shards |-> <<>>]
    /\ batch_request_lag = [i \in Sinks |-> 0]

Init ==
    /\ producer_lock = 0
    /\ producer_period_commit_log = {}
    /\ log = [s \in Shards |-> <<>>]
    /\ producer_slot_seen = {}
    /\ InitProcess

\* the rows of a log partition list with the offsets O, ascending
RECURSIVE RowsOf(_)
RowsOf(O) ==
    IF O = {} THEN <<>>
    ELSE LET o == CHOOSE x \in O : \A y \in O : x <= y
         IN  <<[offset |-> o, period |-> Period(o), id |-> 0, size |-> 1, lock |-> 0]>>
             \o RowsOf(O \ {o})

\* a sink is started on tables with any content: up to MaxRows commit rows (also of a
\* shard id beyond num_shards) and up to MaxRows log rows of one shard, in the first
\* three periods (the recovery queries of a shard read that shard's rows only)
InitRecovery ==
    /\ producer_lock = 0
    /\ producer_period_commit_log \in
          {C \in SUBSET ((0..NumShards) \X (0..1)) : Cardinality(C) <= MaxRows}
    /\ \E s0 \in Shards, f \in [1..MaxRows -> -1..(3 * SHARD_OFFSET_MODULO - 1)] :
          log = [s \in Shards |->
                   IF s = s0 THEN RowsOf({f[n] : n \in 1..MaxRows} \ {-1}) ELSE <<>>]
    /\ producer_slot_seen = {}
    /\ InitProcess

(* ------------------------- task liveness views ------------------------ *)
Terminated(pc) == pc \in {OK, ERR}

\* the sink process exists: its tasks can take steps
Alive(i) == sink[i].pc \in {"locked", "running", "joining", "dropped"}

\* the process is still there after shutdown() returned: a detached task may go on
ProcessRuns(i) == Alive(i) \/ sink[i].pc \in {"closed", "release_failed"}

\* a recv that never sees the senders go
MailboxSendersDropped_unseen(i) == FALSE

\* every sender of the shard mailboxes lives in the dispatcher task
MailboxSendersDropped(i) == Terminated(router[i].pc)

\* the receiver of the dispatcher channel lives in the dispatcher task
RouterReceiverDropped(i) == Terminated(router[i].pc)

\* a reservation that never sees the closed mailbox
MailboxReceiverDropped_unseen(i, s) == FALSE

\* the receiver of a shard mailbox lives in the shard daemon task
MailboxReceiverDropped(i, s) == Terminated(shard[i][s].pc)

(* ------------------------------ facade -------------------------------- *)
\* ScyllaSink::new up to try_acquire_lock: one conditional insert with a fresh uuid
New_Acquire(i, starts) ==
    /\ ~Alive(i)
    /\ uuid < starts
    /\ LET lock_id == uuid + 1
           lwt == TRY_ACQUIRE_PRODUCER_LOCK(producer_lock, lock_id)
       IN  /\ uuid' = IF lwt.applied THEN lock_id ELSE uuid
           /\ producer_lock' = lwt.row
           /\ sink' = [sink EXCEPT ![i] =
                         IF lwt.applied
                         THEN [InitSink EXCEPT !.pc = "locked", !.lock_id = lock_id]
                         ELSE [InitSink EXCEPT !.pc = "lock_failed"]]
    /\ router' = [router EXCEPT ![i] = InitRouter]
    /\ router_chan' = [router_chan EXCEPT ![i] = <<>>]
    /\ shard' = [shard EXCEPT ![i] = [s \in Shards |-> InitShard]]
    /\ mailbox' = [mailbox EXCEPT ![i] = [s \in Shards |-> <<>>]]
    /\ UNCHANGED <<producer_period_commit_log, log, producer_slot_seen, nevents, last_batch, batch_request_lag>>

\* Shard::new
Shard_new(next_offset) ==
    [InitShard EXCEPT !.pc = IF next_offset < 0 THEN "panic" ELSE "prepare",
                      !.next_offset = next_offset,
                      !.first_offset = next_offset]

\* a ProducerLock that releases when it is dropped
ProducerLockDropped_releases(row, lock_id) == DROP_PRODUCER_LOCK(row, lock_id)

\* the lock row after a ProducerLock value is dropped without release(): ProducerLock has
\* no Drop, the row stays
ProducerLockDropped(row, lock_id) == row

\* ScyllaSink::new after the lock: offset recovery, Shard::new + into_daemon per pair,
\* spawn_round_robin; on an error or a panic new ends and its ProducerLock is dropped
New_Recover(i, F) ==
    /\ sink[i].pc = "locked"
    /\ \E r \in F :
         LET shard_offsets == get_max_shard_offsets_for_producer(
                                  producer_period_commit_log, log, NumShards)
         IN  IF r = ERR
             THEN /\ sink' = [sink EXCEPT ![i].pc = "recover_failed"]
                  /\ producer_lock' = ProducerLockDropped(producer_lock, sink[i].lock_id)
                  /\ UNCHANGED <<shard, router>>
             ELSE IF Len(shard_offsets) # NumShards
             THEN /\ sink' = [sink EXCEPT ![i].pc = "panic"]
                  /\ producer_lock' = ProducerLockDropped(producer_lock, sink[i].lock_id)
                  /\ UNCHANGED <<shard, router>>
             ELSE /\ sink' = [sink EXCEPT ![i].pc = "running",
                                          ![i].shard_offsets = shard_offsets]
                  /\ shard' = [shard EXCEPT ![i] =
                       [s \in Shards |->
                          IF \E k \in 1..Len(shard_offsets) : shard_offsets[k][1] = s
                          THEN Shard_new((CHOOSE p \in {shard_offsets[k] : k \in 1..Len(shard_offsets)}
                                              : p[1] = s)[2] + 1)
                          ELSE InitShard]]
                  /\ router' = [router EXCEPT ![i].pc = "prepare"]
                  /\ UNCHANGED producer_lock
    /\ UNCHANGED <<producer_period_commit_log, log, producer_slot_seen, uuid, nevents,
                   last_batch, batch_request_lag, router_chan, mailbox>>

\* log_account_update / log_transaction -> inner_log: send on the dispatcher channel
\* (a full channel makes the call wait; a dropped receiver makes it return "failed to
\* route"); budget bounds the number of events of a behaviour
inner_log(i, slots, sizes, budget) ==
    /\ sink[i].pc = "running"
    /\ nevents < budget
    /\ IF RouterReceiverDropped(i)
       THEN /\ sink' = [sink EXCEPT ![i].log_result = ERR]
            /\ UNCHANGED <<router_chan, nevents>>
       ELSE /\ Len(router_chan[i]) < DEFAULT_SHARD_MAX_BUFFER_CAPACITY
            /\ \E slot \in slots, size \in sizes :
                  /\ router_chan' = [router_chan EXCEPT ![i] =
                                       Append(@, Insert(nevents + 1, slot, size))]
                  /\ sink' = [sink EXCEPT ![i].accepted = Append(@, nevents + 1),
                                          ![i].max_slot = IF slot > @ THEN slot ELSE @]
            /\ nevents' = nevents + 1
    /\ UNCHANGED <<dbvars, uuid, last_batch, batch_request_lag, router, shard, mailbox>>

\* shutdown(): router_sender.send(Shutdown); a closed channel is only logged
shutdown_send(i) ==
    /\ sink[i].pc = "running"
    /\ \/ Terminated(router[i].pc)
       \/ Len(router_chan[i]) < DEFAULT_SHARD_MAX_BUFFER_CAPACITY
    /\ router_chan' = [router_chan EXCEPT ![i] =
                         IF Terminated(router[i].pc) THEN @ ELSE Append(@, Shutdown)]
    /\ sink' = [sink EXCEPT ![i].pc = "joining"]
    /\ UNCHANGED <<dbvars, uuid, nevents, last_batch, batch_request_lag, router, shard, mailbox>>

\* the ScyllaSink value is dropped without shutdown(): the sender of the dispatcher
\* channel and the join handles go, the tasks run on, the lock row stays
DropSink(i) ==
    /\ sink[i].pc = "running"
    /\ sink' = [sink EXCEPT ![i].pc = "dropped"]
    /\ UNCHANGED <<dbvars, uuid, nevents, last_batch, batch_request_lag, router, router_chan, shard, mailbox>>

\* the sender of the dispatcher channel lives in the ScyllaSink value
RouterSenderDropped(i) == sink[i].pc = "dropped"

\* a shutdown that does not await the handles
AllTasksJoined_nowait(i) == TRUE

\* router_handle.await, then every shard_handle.await in turn
AllTasksJoined(i) ==
    /\ Terminated(router[i].pc)
    /\ \A s \in Shards : Terminated(shard[i][s].pc)

\* as shutdown_result, with the errors of the tasks returned
shutdown_result_propagate(router_result, shard_results, release_result) ==
    IF router_result = ERR \/ ERR \in shard_results THEN ERR ELSE release_result

\* what shutdown() returns: the task errors are logged, "release().await?; Ok(())"
shutdown_result(router_result, shard_results, release_result) == release_result

\* shutdown(): the joins, then producer_lock.release(); the sink has state "closed" when
\* shutdown returned Ok and "release_failed" when it returned an error
shutdown_release(i, F) ==
    /\ sink[i].pc = "joining"
    /\ AllTasksJoined(i)
    /\ \E r \in F :
         /\ sink' = [sink EXCEPT ![i].pc =
                IF shutdown_result(router[i].pc, {shard[i][s].pc : s \in Shards}, r) = OK
                THEN "closed" ELSE "release_failed"]
         /\ producer_lock' = IF r = OK
                             THEN DROP_PRODUCER_LOCK(producer_lock, sink[i].lock_id)
                             ELSE producer_lock
    /\ UNCHANGED <<producer_period_commit_log, log, producer_slot_seen, uuid, nevents,
                   last_batch, batch_request_lag, router, router_chan, shard, mailbox>>

\* the sink process dies: every task and all memory is gone, the tables stay
Crash(i) ==
    /\ Alive(i)
    /\ sink' = [sink EXCEPT ![i] = [InitSink EXCEPT !.pc = "crashed"]]
    /\ router' = [router EXCEPT ![i] = InitRouter]
    /\ router_chan' = [router_chan EXCEPT ![i] = <<>>]
    /\ shard' = [shard EXCEPT ![i] = [s \in Shards |-> InitShard]]
    /\ mailbox' = [mailbox EXCEPT ![i] = [s \in Shards |-> <<>>]]
    /\ batch_request_lag' = [batch_request_lag EXCEPT ![i] = 0]
    /\ UNCHANGED <<dbvars, uuid, nevents, last_batch>>

\* "you may need to release it manually": an operator deletes the row of a dead holder
ManualRelease ==
    /\ producer_lock # 0
    /\ \A i \in Sinks : Alive(i) => sink[i].lock_id # producer_lock
    /\ producer_lock' = 0
    /\ UNCHANGED <<producer_period_commit_log, log, producer_slot_seen, uuid, nevents,
                   last_batch, batch_request_lag, sink, router, router_chan, shard, mailbox>>

(* ---------------------------- shard daemon ---------------------------- *)
\* a finished task: its memory is freed, only the JoinHandle's result remains
Finished(result) == [InitShard EXCEPT !.pc = result]

\* "if offset % SHARD_OFFSET_MODULO == 0 && offset > 0"
StartedNewPeriod(offset) == offset % SHARD_OFFSET_MODULO = 0 /\ offset > 0

CommittedPeriod_current(curr_period) == curr_period

\* the period of the commit row: "curr_period - 1"
CommittedPeriod(curr_period) == curr_period - 1

FlushOnShutdown_skip == FALSE

\* the Shutdown arm calls self.flush() before it returns
FlushOnShutdown == TRUE

ReserveOffset_skip(offset) == offset + 2

\* "self.next_offset += 1"
ReserveOffset(offset) == offset + 1

need_flush_nocap(sh, msg_byte_size) ==
    \/ sh.curr_batch_byte_size + msg_byte_size >= max_buffer_byte_size
    \/ sh.elapsed > 0

need_flush_nobytes(sh, msg_byte_size) ==
    \/ Len(sh.buffer) >= DEFAULT_SHARD_MAX_BUFFER_CAPACITY
    \/ sh.elapsed > 0

\* the flush predicate of into_daemon
need_flush(sh, msg_byte_size) ==
    \/ Len(sh.buffer) >= DEFAULT_SHARD_MAX_BUFFER_CAPACITY
    \/ sh.curr_batch_byte_size + msg_byte_size >= max_buffer_byte_size
    \/ sh.elapsed > 0

clear_buffer_keeps_statements(sh) == [sh EXCEPT !.buffer = <<>>, !.curr_batch_byte_size = 0]

\* Shard::clear_buffer
clear_buffer(sh) == [sh EXCEPT !.buffer = <<>>, !.curr_batch_byte_size = 0, !.statements = 0]

\* Shard::flush submits a batch only for a non-empty buffer
FlushSubmits(sh) == Len(sh.buffer) > 0

\* scylladb_batch_request_lag_inc() and scylladb_batch_request_lag_sub(n) on the gauge
scylladb_batch_request_lag_inc(gauge) == gauge + 1

scylladb_batch_request_lag_sub(gauge, n) == gauge - n

\* a flush that takes the buffer for one longer than it is
buffer_len_and_one(sh) == Len(sh.buffer) + 1

\* "let buffer_len = self.buffer.len()" of Shard::flush
buffer_len(sh) == Len(sh.buffer)

\* the rows session.batch writes: the whole buffer
BatchRows(sh) == sh.buffer

\* the daemon up to its next recv: the two session.prepare calls when it starts (with the
\* first linger deadline), then the top of the loop: the period commit when a period
\* starts, and the offset is reserved
DaemonTop(i, s, F) ==
    /\ Alive(i)
    /\ shard[i][s].pc \in {"prepare", "top"}
    /\ LET offset == shard[i][s].next_offset
           curr_period == Period(offset)
           starting == shard[i][s].pc = "prepare"
       IN  \E r \in F :
             IF (starting \/ StartedNewPeriod(offset)) /\ r = ERR
             THEN /\ shard' = [shard EXCEPT ![i][s] = Finished(ERR)]
                  /\ mailbox' = [mailbox EXCEPT ![i][s] = <<>>]
                  /\ UNCHANGED producer_period_commit_log
             ELSE /\ producer_period_commit_log' =
                        IF StartedNewPeriod(offset)
                        THEN producer_period_commit_log \cup {<<s, CommittedPeriod(curr_period)>>}
                        ELSE producer_period_commit_log
                  /\ shard' = [shard EXCEPT ![i][s].pc = "recv",
                                            ![i][s].next_offset = ReserveOffset(offset),
                                            ![i][s].elapsed = IF starting THEN 0 ELSE @]
                  /\ UNCHANGED mailbox
    /\ UNCHANGED <<producer_lock, log, producer_slot_seen, uuid, nevents, last_batch, batch_request_lag,
                   sink, router, router_chan>>

\* receiver.recv() returned a command: Insert (flush if needed, then push) or Shutdown
DaemonRecv(i, s, F) ==
    /\ Alive(i)
    /\ shard[i][s].pc = "recv"
    /\ mailbox[i][s] # <<>>
    /\ LET sh == shard[i][s]
           msg == Head(mailbox[i][s])
           offset == sh.next_offset - 1
           flushing == IF msg.type = "Insert" THEN need_flush(sh, msg.size)
                       ELSE FlushOnShutdown
           submits == flushing /\ FlushSubmits(sh)
           after == IF flushing THEN [clear_buffer(sh) EXCEPT !.elapsed = 0] ELSE sh
       IN  \E r \in F :
             IF submits /\ r = ERR
             THEN /\ shard' = [shard EXCEPT ![i][s] = Finished(ERR)]
                  /\ mailbox' = [mailbox EXCEPT ![i][s] = <<>>]
                  /\ UNCHANGED <<log, last_batch, batch_request_lag>>
             ELSE /\ log' = IF submits THEN [log EXCEPT ![s] = @ \o BatchRows(sh)] ELSE log
                  /\ last_batch' = IF submits THEN [last_batch EXCEPT ![s] = BatchRows(sh)]
                                   ELSE last_batch
                  /\ batch_request_lag' =
                        IF submits
                        THEN [batch_request_lag EXCEPT
                                ![i] = scylladb_batch_request_lag_sub(@, buffer_len(sh))]
                        ELSE batch_request_lag
                  /\ IF msg.type = "Insert"
                     THEN /\ shard' = [shard EXCEPT ![i][s] =
                                [after EXCEPT
                                   !.buffer = Append(@, as_blockchain_event(msg, offset, sink[i].lock_id)),
                                   !.statements = @ + 1,
                                   !.curr_batch_byte_size = @ + msg.size,
                                   !.pc = "top"]]
                          /\ mailbox' = [mailbox EXCEPT ![i][s] = Tail(@)]
                     ELSE /\ shard' = [shard EXCEPT ![i][s] = Finished(OK)]
                          /\ mailbox' = [mailbox EXCEPT ![i][s] = <<>>]
    /\ UNCHANGED <<producer_lock, producer_period_commit_log, producer_slot_seen, uuid,
                   nevents, sink, router, router_chan>>

\* receiver.recv() returned None: "Shard mailbox closed"
DaemonMailboxClosed(i, s) ==
    /\ Alive(i)
    /\ shard[i][s].pc = "recv"
    /\ mailbox[i][s] = <<>>
    /\ MailboxSendersDropped(i)
    /\ shard' = [shard EXCEPT ![i][s] = Finished(ERR)]
    /\ UNCHANGED <<dbvars, uuid, nevents, last_batch, batch_request_lag, sink, router, router_chan, mailbox>>

\* time passes: one more linger duration has gone by since buffering_timeout was set
\* (elapsed counts them up to n); buffering_timeout.elapsed() > Duration::ZERO from the first on
LingerElapses(i, s, n) ==
    /\ Alive(i)
    /\ shard[i][s].pc \in {"top", "recv"}
    /\ shard[i][s].elapsed < n
    /\ shard' = [shard EXCEPT ![i][s].elapsed = @ + 1]
    /\ UNCHANGED <<dbvars, uuid, nevents, last_batch, batch_request_lag, sink, router, router_chan, mailbox>>

(* ----------------------- round-robin dispatcher ----------------------- *)
\* a finished dispatcher task; the spawned slot-seen write lives on
RouterFinished(ro, result) ==
    [InitRouter EXCEPT !.pc = result, !.bg = ro.bg, !.bg_slot = ro.bg_slot,
                       !.inflight = ro.inflight]

\* an iterator that stays where it is
NextInRotation_stay(i) == i

\* the shard the cyclic iterator yields after shard i
NextInRotation(i) == (i + 1) % NumShards

\* session.prepare(INSERT_PRODUCER_SLOT)
RouterPrepare(i, F) ==
    /\ Alive(i)
    /\ router[i].pc = "prepare"
    /\ \E r \in F :
         router' = [router EXCEPT ![i] =
                      IF r = ERR THEN RouterFinished(@, ERR) ELSE [@ EXCEPT !.pc = "recv"]]
    /\ UNCHANGED <<dbvars, uuid, nevents, last_batch, batch_request_lag, sink, router_chan, shard, mailbox>>

\* receiver.recv(): Shutdown breaks to the teardown, an Insert with a new max slot
\* first awaits the previous slot-seen write
RouterRecv(i) ==
    /\ Alive(i)
    /\ router[i].pc = "recv"
    /\ router_chan[i] # <<>>
    /\ LET msg == Head(router_chan[i])
       IN  router' = [router EXCEPT ![i] =
             IF msg = Shutdown
             THEN [@ EXCEPT !.pc = "teardown", !.j = 0]
             ELSE IF @.max_slot_seen < msg.slot
             THEN [@ EXCEPT !.pc = "awaitbg", !.msg = msg, !.max_slot_seen = msg.slot]
             ELSE [@ EXCEPT !.pc = "reserve", !.msg = msg]]
    /\ router_chan' = [router_chan EXCEPT ![i] = Tail(@)]
    /\ UNCHANGED <<dbvars, uuid, nevents, last_batch, batch_request_lag, sink, shard, mailbox>>

\* receiver.recv() returned None: unwrap_or(ClientCommand::Shutdown)
RouterRecvClosed(i) ==
    /\ Alive(i)
    /\ router[i].pc = "recv"
    /\ router_chan[i] = <<>>
    /\ RouterSenderDropped(i)
    /\ router' = [router EXCEPT ![i].pc = "teardown", ![i].j = 0]
    /\ UNCHANGED <<dbvars, uuid, nevents, last_batch, batch_request_lag, sink, router_chan, shard, mailbox>>

\* spawning without the await
PreviousWriteDone_nowait(ro) == TRUE

\* "background_commit_max_slot_seen.await" returns once the task behind the handle is done
PreviousWriteDone(ro) == ro.bg # "run"

\* background_commit_max_slot_seen.await??, then the next write is spawned
RouterAwaitBg(i) ==
    /\ Alive(i)
    /\ router[i].pc = "awaitbg"
    /\ PreviousWriteDone(router[i])
    /\ router' = [router EXCEPT ![i] =
                    IF @.bg = ERR THEN RouterFinished(@, ERR)
                    ELSE [@ EXCEPT !.pc = "reserve", !.bg = "run",
                                   !.bg_slot = router[i].msg.slot,
                                   !.inflight = @ \cup {router[i].msg.slot}]]
    /\ UNCHANGED <<dbvars, uuid, nevents, last_batch, batch_request_lag, sink, router_chan, shard, mailbox>>

\* a spawned task: session.execute(insert_slot_ps, (producer_id, slot)); its result goes
\* to the handle when the handle still refers to it; the task is detached when the
\* dispatcher ends, it goes on while the process runs
BackgroundCommitSlot(i, F) ==
    /\ ProcessRuns(i)
    /\ \E slot \in router[i].inflight, r \in F :
         /\ router' = [router EXCEPT ![i].inflight = @ \ {slot},
                                     ![i].bg = IF router[i].bg_slot = slot THEN r ELSE @]
         /\ producer_slot_seen' = IF r = OK THEN producer_slot_seen \cup {slot}
                                  ELSE producer_slot_seen
    /\ UNCHANGED <<producer_lock, producer_period_commit_log, log, uuid, nevents, last_batch, batch_request_lag,
                   sink, router_chan, shard, mailbox>>

\* shard_sender.reserve().await, then permit.send(msg) and the gauge increment on Ok, the
\* break on Err. No await separates permit.send from the increment, but the daemon may
\* run on another worker thread in between: with counted the two are one step (no task
\* reads the gauge, so every other variable goes through the same states), without it
\* the dispatcher stops between them, at "lag_inc", still holding the message it sent
ReserveAndSend(i, counted) ==
    /\ Alive(i)
    /\ router[i].pc = "reserve"
    /\ LET s == router[i].i
       IN  IF MailboxReceiverDropped(i, s)
           THEN /\ router' = [router EXCEPT ![i].pc = "teardown", ![i].j = 0,
                                            ![i].msg = Shutdown]
                /\ UNCHANGED <<mailbox, batch_request_lag>>
           ELSE /\ Len(mailbox[i][s]) < SHARD_MAILBOX_CAPACITY
                /\ mailbox' = [mailbox EXCEPT ![i][s] = Append(@, router[i].msg)]
                /\ IF counted
                   THEN /\ router' = [router EXCEPT ![i].pc = "recv",
                                                    ![i].i = NextInRotation(s),
                                                    ![i].msg = Shutdown]
                        /\ batch_request_lag' =
                              [batch_request_lag EXCEPT
                                 ![i] = scylladb_batch_request_lag_inc(@)]
                   ELSE /\ router' = [router EXCEPT ![i].pc = "lag_inc"]
                        /\ UNCHANGED batch_request_lag
    /\ UNCHANGED <<dbvars, uuid, nevents, last_batch, sink, router_chan, shard>>

RouterReserve(i) == ReserveAndSend(i, TRUE)

\* permit.send(msg) alone
RouterReserveSend(i) == ReserveAndSend(i, FALSE)

\* scylladb_batch_request_lag_inc() after permit.send(msg), and the end of the iteration
RouterLagInc(i) ==
    /\ Alive(i)
    /\ router[i].pc = "lag_inc"
    /\ router' = [router EXCEPT ![i].pc = "recv", ![i].i = NextInRotation(@),
                                ![i].msg = Shutdown]
    /\ batch_request_lag' =
          [batch_request_lag EXCEPT ![i] = scylladb_batch_request_lag_inc(@)]
    /\ UNCHANGED <<dbvars, uuid, nevents, last_batch, sink, router_chan, shard, mailbox>>

\* "Send shutdown to all shards": shard_sender.send(Shutdown).await? for shard j
RouterTeardown(i) ==
    /\ Alive(i)
    /\ router[i].pc = "teardown"
    /\ LET s == router[i].j
       IN  IF MailboxReceiverDropped(i, s)
           THEN /\ router' = [router EXCEPT ![i] = RouterFinished(@, ERR)]
                /\ UNCHANGED mailbox
           ELSE /\ Len(mailbox[i][s]) < SHARD_MAILBOX_CAPACITY
                /\ mailbox' = [mailbox EXCEPT ![i][s] = Append(@, Shutdown)]
                /\ router' = [router EXCEPT ![i] =
                                IF s + 1 = NumShards THEN RouterFinished(@, OK)
                                ELSE [@ EXCEPT !.j = s + 1]]
    /\ UNCHANGED <<dbvars, uuid, nevents, last_batch, batch_request_lag, sink, router_chan, shard>>

(* --------------------------- specifications --------------------------- *)
\* the tasks of sink i; database requests answer with one of F
Task(i, F) ==
    \/ RouterPrepare(i, F)
    \/ RouterRecv(i)
    \/ RouterAwaitBg(i)
    \/ BackgroundCommitSlot(i, F)
    \/ RouterReserve(i)
    \/ RouterTeardown(i)
    \/ \E s \in Shards :
         \/ DaemonTop(i, s, F)
         \/ DaemonRecv(i, s, F)

\* one sink process that may crash at any point and be restarted; database requests
\* may fail; the linger deadline may pass at any time
Next ==
    \/ \E i \in {"A"} :
         \/ New_Acquire(i, MaxStarts)
         \/ New_Recover(i, {OK, ERR})
         \/ inner_log(i, {0}, {1}, MaxEvents)
         \/ shutdown_send(i)
         \/ shutdown_release(i, {OK, ERR})
         \/ Crash(i)
         \/ Task(i, {OK, ERR})
         \/ \E s \in Shards : DaemonMailboxClosed(i, s)
         \/ \E s \in Shards : LingerElapses(i, s, 1)
    \/ ManualRelease

Spec == Init /\ [][Next]_vars

\* as Spec, with a database that answers every request with success
NextOk ==
    \/ \E i \in {"A"} :
         \/ New_Acquire(i, MaxStarts)
         \/ New_Recover(i, {OK})
         \/ inner_log(i, {0}, {1}, MaxEvents)
         \/ shutdown_send(i)
         \/ shutdown_release(i, {OK})
         \/ Crash(i)
         \/ Task(i, {OK})
         \/ \E s \in Shards : LingerElapses(i, s, 1)
    \/ ManualRelease

SpecOk == Init /\ [][NextOk]_vars

\* a sink that neither crashes nor meets a database error, with events of several byte
\* sizes and no linger deadline passing: flushes come from capacity, byte size, Shutdown
NextBytes ==
    \E i \in {"A"} :
       \/ New_Acquire(i, MaxStarts)
       \/ New_Recover(i, {OK})
       \/ inner_log(i, {0}, {1, MaxEventSize}, MaxEvents)
       \/ shutdown_send(i)
       \/ shutdown_release(i, {OK})
       \/ Task(i, {OK})

SpecBytes == Init /\ [][NextBytes]_vars

\* as NextBytes with events of one size, and time passing up to two linger durations
NextLinger ==
    \E i \in {"A"} :
       \/ New_Acquire(i, MaxStarts)
       \/ New_Recover(i, {OK})
       \/ inner_log(i, {0}, {1}, MaxEvents)
       \/ shutdown_send(i)
       \/ shutdown_release(i, {OK})
       \/ Task(i, {OK})
       \/ \E s \in Shards : LingerElapses(i, s, 2)

SpecLinger == Init /\ [][NextLinger]_vars

\* two sink processes started for the same producer id, no crash, no database error
NextLock ==
    \E i \in Sinks :
       \/ New_Acquire(i, MaxStarts)
       \/ New_Recover(i, {OK})
       \/ inner_log(i, {0}, {1}, MaxEvents)
       \/ shutdown_send(i)
       \/ shutdown_release(i, {OK})
       \/ Task(i, {OK})

SpecLock == Init /\ [][NextLock]_vars

\* ScyllaSink::new alone, on tables with any content
NextRecovery ==
    \E i \in {"A"} :
       \/ New_Acquire(i, MaxStarts)
       \/ New_Recover(i, {OK})

SpecRecovery == InitRecovery /\ [][NextRecovery]_vars

\* one run of a sink process that does not crash; database requests may fail, and the
\* ScyllaSink value may be dropped without shutdown()
NextErr ==
    \E i \in {"A"} :
       \/ New_Acquire(i, 1)
       \/ New_Recover(i, {OK, ERR})
       \/ inner_log(i, {0}, {1}, MaxEventsErr)
       \/ shutdown_send(i)
       \/ shutdown_release(i, {OK, ERR})
       \/ DropSink(i)
       \/ Task(i, {OK, ERR})
       \/ RouterRecvClosed(i)
       \/ \E s \in Shards : DaemonMailboxClosed(i, s)

SpecErr == Init /\ [][NextErr]_vars

\* the steps of the dispatcher task of sink i
RouterTask(i) ==
    \/ RouterPrepare(i, {OK, ERR})
    \/ RouterRecv(i)
    \/ RouterRecvClosed(i)
    \/ RouterAwaitBg(i)
    \/ RouterReserve(i)
    \/ RouterTeardown(i)

\* the steps of the daemon task of shard s of sink i
DaemonTask(i, s) ==
    \/ DaemonTop(i, s, {OK, ERR})
    \/ DaemonRecv(i, s, {OK, ERR})
    \/ DaemonMailboxClosed(i, s)

\* SpecErr under a fair scheduler and a database that answers every request: each task
\* that can take a step eventually does, and so does shutdown() once its joins are done
SpecErrFair ==
    /\ SpecErr
    /\ \A i \in {"A"} :
          /\ WF_vars(RouterTask(i))
          /\ WF_vars(BackgroundCommitSlot(i, {OK, ERR}))
          /\ WF_vars(shutdown_release(i, {OK, ERR}))
          /\ \A s \in Shards : WF_vars(DaemonTask(i, s))

\* one run of a sink without crash, database error or linger deadline that is sent a
\* burst of events, more than its shard buffers hold
NextBurst ==
    \E i \in {"A"} :
       \/ New_Acquire(i, 1)
       \/ New_Recover(i, {OK})
       \/ inner_log(i, {0}, {1}, BurstEvents)
       \/ shutdown_send(i)
       \/ shutdown_release(i, {OK})
       \/ Task(i, {OK})

SpecBurst == Init /\ [][NextBurst]_vars

\* one run of a sink whose events carry several slots, in any order, and whose slot-seen
\* writes may fail; the other database requests succeed
NextSlots ==
    \E i \in {"A"} :
       \/ New_Acquire(i, 1)
       \/ New_Recover(i, {OK})
       \/ inner_log(i, 0..MaxSlot, {1}, MaxEventsErr)
       \/ shutdown_send(i)
       \/ shutdown_release(i, {OK})
       \/ RouterPrepare(i, {OK})
       \/ RouterRecv(i)
       \/ RouterAwaitBg(i)
       \/ BackgroundCommitSlot(i, {OK, ERR})
       \/ RouterReserve(i)
       \/ RouterTeardown(i)
       \/ \E s \in Shards :
            \/ DaemonTop(i, s, {OK})
            \/ DaemonRecv(i, s, {OK})
            \/ DaemonMailboxClosed(i, s)

SpecSlots == Init /\ [][NextSlots]_vars

\* a sink that is started again and again, with an offset recovery that may fail and an
\* operator who may delete the lock row of a dead holder; one event per behaviour
NextNew ==
    \/ \E i \in {"A"} :
         \/ New_Acquire(i, MaxStarts)
         \/ New_Recover(i, {OK, ERR})
         \/ inner_log(i, {0}, {1}, 1)
         \/ shutdown_send(i)
         \/ shutdown_release(i, {OK})
         \/ Task(i, {OK})
    \/ ManualRelease

SpecNew == Init /\ [][NextNew]_vars

\* one run of a sink that does not crash, with events of several byte sizes, a linger
\* deadline that may pass, and database requests of the tasks that may fail
NextFlush ==
    \E i \in {"A"} :
       \/ New_Acquire(i, 1)
       \/ New_Recover(i, {OK})
       \/ inner_log(i, {0}, {1, MaxEventSize}, MaxEventsErr)
       \/ shutdown_send(i)
       \/ shutdown_release(i, {OK})
       \/ Task(i, {OK, ERR})
       \/ \E s \in Shards : LingerElapses(i, s, 1)

SpecFlush == Init /\ [][NextFlush]_vars

\* the tasks of sink i with the dispatcher's permit.send and gauge increment as two steps
TaskLag(i, F) ==
    \/ RouterPrepare(i, F)
    \/ RouterRecv(i)
    \/ RouterAwaitBg(i)
    \/ BackgroundCommitSlot(i, F)
    \/ RouterReserveSend(i)
    \/ RouterLagInc(i)
    \/ RouterTeardown(i)
    \/ \E s \in Shards :
         \/ DaemonTop(i, s, F)
         \/ DaemonRecv(i, s, F)

\* one run of a sink that does not crash, with a linger deadline that may pass and
\* database requests of the tasks that may fail; the daemons may run between the
\* dispatcher's permit.send and its gauge increment
NextLag ==
    \E i \in {"A"} :
       \/ New_Acquire(i, 1)
       \/ New_Recover(i, {OK})
       \/ inner_log(i, {0}, {1}, MaxEvents)
       \/ shutdown_send(i)
       \/ shutdown_release(i, {OK})
       \/ TaskLag(i, {OK, ERR})
       \/ \E s \in Shards : LingerElapses(i, s, 1)

SpecLag == Init /\ [][NextLag]_vars

(* ------------------------------ properties ---------------------------- *)
Live(i, s) == shard[i][s].pc \in {"top", "recv"}

\* the rows of shard s written under lock lock_id, in the order they were written
RunRows(s, lock_id) == SelectSeq(log[s], LAMBDA r : r.lock = lock_id)

\* the offset the daemon works on: reserved when it waits in recv, next when at the top
CurrentOffset(sh) == IF sh.pc = "recv" THEN sh.next_offset - 1 ELSE sh.next_offset

\* C1: within one run of a shard daemon started with next_offset = k, the i-th Insert it
\* receives gets offset k+i; the rows it persists are k, k+1, ... in that order, without
\* duplicate or gap, and the events it still buffers continue that sequence
C1_OffsetsConsecutiveInRun ==
    /\ \A i \in Sinks, s \in Shards :
         Live(i, s) =>
           LET sh == shard[i][s]
               T == RunRows(s, sink[i].lock_id) \o sh.buffer
           IN  /\ \A j \in 1..Len(T) : T[j].offset = sh.first_offset + (j - 1)
               /\ \A j \in 1..(Len(T) - 1) : T[j].id < T[j + 1].id
               /\ CurrentOffset(sh) = sh.first_offset + Len(T)
    /\ \A s \in Shards, l \in 1..uuid :
         LET R == RunRows(s, l)
         IN  \A j \in 1..(Len(R) - 1) : R[j + 1].offset = R[j].offset + 1

\* a daemon that resumed at k > 0 has persisted a batch and buffers a later event
C1_Witness ==
    \E i \in Sinks, s \in Shards :
       /\ Live(i, s)
       /\ shard[i][s].first_offset > 0
       /\ RunRows(s, sink[i].lock_id) # <<>>
       /\ shard[i][s].buffer # <<>>

\* C2: a log row of shard s at an offset >= (P+1) * SHARD_OFFSET_MODULO is persisted only
\* when the period-commit row (s, P) exists already (rows and commit rows are never
\* deleted), also in runs resumed through recovery; in the first run on an empty database
\* a commit row (s, P) exists only once the daemon has reached offset (P+1) * SHARD_OFFSET_MODULO
C2_CommitPrecedesNextPeriod ==
    /\ \A s \in Shards : \A k \in 1..Len(log[s]) :
         \A P \in 0..log[s][k].offset :
            log[s][k].offset >= (P + 1) * SHARD_OFFSET_MODULO
               => <<s, P>> \in producer_period_commit_log
    /\ \A i \in Sinks, s \in Shards :
         (uuid = 1 /\ Live(i, s)) =>
            \A c \in producer_period_commit_log :
               c[1] = s => CurrentOffset(shard[i][s]) >= (c[2] + 1) * SHARD_OFFSET_MODULO

\* a run that resumed through recovery has persisted a row of a period after period 0
C2_Witness ==
    \E s \in Shards : \E k \in 1..Len(log[s]) :
       /\ log[s][k].offset >= SHARD_OFFSET_MODULO
       /\ log[s][k].lock > 1

\* C3: in every state (so wherever the sink crashes), offset recovery on the tables as
\* they are returns for each shard a last_offset with last_offset + 1 above every offset
\* persisted for the shard; and a running daemon was started above every offset that
\* earlier runs persisted
C3_RecoveryAbovePersisted ==
    /\ LET pairs == get_max_shard_offsets_for_producer(
                        producer_period_commit_log, log, NumShards)
       IN  \A k \in 1..Len(pairs) : \A n \in 1..Len(log[pairs[k][1]]) :
              pairs[k][2] + 1 > log[pairs[k][1]][n].offset
    /\ \A i \in Sinks, s \in Shards :
         Live(i, s) =>
           \A n \in 1..Len(log[s]) :
              log[s][n].lock # sink[i].lock_id => log[s][n].offset < shard[i][s].first_offset

\* a sink restarted after a crash between the commit of period 0 and the flush of its
\* last events: the commit row is there, the period's rows are not, the daemon resumes
C3_Witness ==
    \E i \in Sinks, s \in Shards :
       /\ Live(i, s)
       /\ sink[i].lock_id > 1
       /\ <<s, 0>> \in producer_period_commit_log
       /\ log[s] # <<>>
       /\ Len(log[s]) < SHARD_OFFSET_MODULO
       /\ shard[i][s].first_offset = SHARD_OFFSET_MODULO

\* C4: every batch submitted to the database holds events of one (producer, shard,
\* period) partition only: all rows of a session.batch call have the same period
C4_BatchSinglePartition ==
    \A s \in Shards : \A j, k \in 1..Len(last_batch[s]) :
       Period(last_batch[s][j].offset) = Period(last_batch[s][k].offset)

\* C7: when the period-commit row (s, P) is written, every event that was assigned an
\* offset of period P is persisted already: no event of a committed period is still
\* only in a daemon's buffer
C7_CommitMeansPeriodPersisted ==
    \A i \in Sinks, s \in Shards :
       Live(i, s) =>
          \A k \in 1..Len(shard[i][s].buffer) :
             <<s, Period(shard[i][s].buffer[k].offset)>> \notin producer_period_commit_log

\* C5: single writer. At most one sink holds the producer lock at a time and the lock row
\* names it; once shutdown has released the lock no row is left; a start of a sink
\* succeeds exactly when no other sink holds the lock (of two concurrent starts one
\* acquires and the other fails, a start while another sink holds the lock fails, a start
\* after the holder's shutdown succeeds)
C5_SingleWriter ==
    /\ [](/\ Cardinality({i \in Sinks : Alive(i)}) <= 1
          /\ \A i \in Sinks : Alive(i) => producer_lock = sink[i].lock_id
          /\ (\A i \in Sinks : ~Alive(i)) => producer_lock = 0)
    /\ [][\A i \in Sinks :
            (/\ ~Alive(i)
             /\ sink'[i] # sink[i]
             /\ sink'[i].pc \in {"locked", "lock_failed"})
            => (sink'[i].pc = "locked" <=> \A j \in Sinks \ {i} : ~Alive(j))]_vars

\* A was the first holder and has shut down; B started after the release and holds the
\* lock under a new lock id
C5_Witness ==
    /\ sink["A"].pc = "closed"
    /\ sink["A"].lock_id = 1
    /\ Alive("B")
    /\ sink["B"].lock_id = 2
    /\ producer_lock = 2

\* C6: after a shutdown that returned Ok (no database failure), every event the sink
\* accepted is persisted exactly once, the rows of each shard are in the order the events
\* were accepted, and every period whose last offset was assigned has its commit row
C6_GracefulShutdownLosesNothing ==
    \A i \in Sinks :
       sink[i].pc = "closed" =>
          /\ \A n \in 1..Len(sink[i].accepted) :
                Cardinality({<<s, k>> \in Shards \X (1..MaxEvents) :
                                /\ k <= Len(log[s])
                                /\ log[s][k].id = sink[i].accepted[n]}) = 1
          /\ \A s \in Shards :
                LET R == RunRows(s, sink[i].lock_id)
                IN  /\ \A k \in 1..(Len(R) - 1) : R[k].id < R[k + 1].id
                    /\ \A k \in 1..Len(R) :
                          /\ \E n \in 1..Len(sink[i].accepted) : sink[i].accepted[n] = R[k].id
                          /\ (R[k].offset + 1) % SHARD_OFFSET_MODULO = 0
                                => <<s, Period(R[k].offset)>> \in producer_period_commit_log

\* a sink has shut down after it accepted three events or more, one of them flushed by
\* the Shutdown command only, and a shard has completed period 0
C6_Witness ==
    \E i \in Sinks :
       /\ sink[i].pc = "closed"
       /\ Len(sink[i].accepted) >= 3
       /\ \E s \in Shards :
             /\ Len(RunRows(s, sink[i].lock_id)) >= SHARD_OFFSET_MODULO
             /\ <<s, 0>> \in producer_period_commit_log
       /\ \E s \in Shards :
             /\ last_batch[s] # <<>>
             /\ last_batch[s][Len(last_batch[s])].id = sink[i].accepted[Len(sink[i].accepted)]

\* C8: the linger bounds the wait of a buffered event also when no command follows: once
\* nothing is in flight to a waiting daemon and more than one linger has passed since
\* its flush deadline was set, its buffer is empty
C8_LingerBoundsWait ==
    \A i \in Sinks, s \in Shards :
       (/\ Live(i, s)
        /\ shard[i][s].pc = "recv"
        /\ mailbox[i][s] = <<>>
        /\ router[i].pc = "recv"
        /\ router_chan[i] = <<>>
        /\ shard[i][s].elapsed >= 2)
       => shard[i][s].buffer = <<>>

\* the daemon of shard s takes an Insert whose size brings the batch to
\* max_buffer_byte_size or above
ByteTriggerStep(i, s) ==
    /\ shard[i][s].pc = "recv"
    /\ mailbox[i][s] # <<>>
    /\ Head(mailbox[i][s]).type = "Insert"
    /\ shard[i][s].curr_batch_byte_size + Head(mailbox[i][s]).size >= max_buffer_byte_size
    /\ shard'[i][s] # shard[i][s]

\* C9 as stated: the batch flushed when an event brings the batch to the byte limit
\* includes that event
C9_TriggeringEventInBatch ==
    [][\A i \in Sinks, s \in Shards :
         ByteTriggerStep(i, s) =>
            \E k \in 1..Len(last_batch'[s]) :
               last_batch'[s][k].id = Head(mailbox[i][s]).id]_vars

\* C9: when an incoming event brings curr_batch_byte_size + msg_byte_size to
\* max_buffer_byte_size or above, the daemon flushes the events buffered before it as one
\* batch, whatever their number; the incoming event is not in that batch, it becomes the
\* only event of the next buffer
C9_ByteTriggerFlushesEarlierEvents ==
    [][\A i \in Sinks, s \in Shards :
         ByteTriggerStep(i, s) =>
            LET sh == shard[i][s]
                msg == Head(mailbox[i][s])
            IN  /\ Len(shard'[i][s].buffer) = 1
                /\ shard'[i][s].buffer[1].id = msg.id
                /\ shard'[i][s].buffer[1].offset = sh.next_offset - 1
                /\ shard'[i][s].curr_batch_byte_size = msg.size
                /\ log'[s] = log[s] \o sh.buffer
                /\ sh.buffer # <<>> => last_batch'[s] = sh.buffer
                /\ \A k \in 1..Len(log'[s]) : log'[s][k].id # msg.id]_vars

\* a batch of one event, below the capacity, was flushed when the event now alone in the
\* buffer arrived: their sizes together reach max_buffer_byte_size
C9_Witness ==
    \E i \in Sinks, s \in Shards :
       /\ Live(i, s)
       /\ Len(last_batch[s]) = 1
       /\ 1 < DEFAULT_SHARD_MAX_BUFFER_CAPACITY
       /\ Len(shard[i][s].buffer) = 1
       /\ shard[i][s].buffer[1].offset = last_batch[s][1].offset + 1
       /\ last_batch[s][1].size + shard[i][s].buffer[1].size >= max_buffer_byte_size
       /\ log[s] = last_batch[s]

C11_ShutdownReleasesInEveryCase ==
    [][\A i \in Sinks :
         (sink[i].pc = "joining" /\ sink'[i].pc # "joining") =>
            /\ AllTasksJoined(i)
            /\ sink'[i].pc \in {"closed", "release_failed"}
            /\ sink'[i].pc = "closed" <=>
                  producer_lock' = DROP_PRODUCER_LOCK(sink[i].lock_id, sink[i].lock_id)
            /\ sink'[i].pc = "release_failed" <=> producer_lock' = sink[i].lock_id]_vars

\* shutdown() returned Ok and released the lock although the dispatcher and a shard
\* daemon had terminated with an error
C11_Witness ==
    \E i \in Sinks :
       /\ sink[i].pc = "closed"
       /\ producer_lock = 0
       /\ router[i].pc = ERR
       /\ \E s \in Shards : shard[i][s].pc = ERR
       /\ \E s \in Shards : shard[i][s].pc = OK

\* C12: a closed upstream mailbox is an implicit Shutdown for both kinds of task: the
\* dispatcher whose input channel is closed goes to its teardown, and a shard daemon
\* whose mailbox is closed flushes its buffered events and ends as on Shutdown
C12_ClosedMailboxIsShutdown ==
    [][\A i \in Sinks :
         /\ (/\ router[i].pc = "recv"
             /\ router_chan[i] = <<>>
             /\ RouterSenderDropped(i)
             /\ router'[i].pc # router[i].pc)
            => router'[i].pc = "teardown"
         /\ \A s \in Shards :
               (/\ shard[i][s].pc = "recv"
                /\ mailbox[i][s] = <<>>
                /\ MailboxSendersDropped(i)
                /\ shard'[i][s].pc # shard[i][s].pc)
               => /\ shard'[i][s].pc = OK
                  /\ log'[s] = log[s] \o shard[i][s].buffer]_vars

\* the places where the command of event id is held in sink i: the dispatcher channel, the
\* dispatcher's hand, a shard mailbox, a shard buffer, or the log
Holders(i, id) ==
    {<<"chan", 0, k>> : k \in {n \in 1..Len(router_chan[i]) : router_chan[i][n].id = id}}
    \cup {<<"router", 0, 0>> : k \in {n \in {0} : router[i].msg.id = id}}
    \cup UNION {{<<"mailbox", s, k>> :
                   k \in {n \in 1..Len(mailbox[i][s]) : mailbox[i][s][n].id = id}}
                \cup {<<"buffer", s, k>> :
                   k \in {n \in 1..Len(shard[i][s].buffer) : shard[i][s].buffer[n].id = id}}
                \cup {<<"log", s, k>> :
                   k \in {n \in 1..Len(log[s]) : log[s][n].id = id}} : s \in Shards}

\* C13: bounded memory: the dispatcher channel never holds more than its capacity, a shard
\* mailbox never more than its capacity (Shutdown included), a shard buffer and every
\* submitted batch never more than max_buffer_capacity events; and with senders waiting
\* on full channels no command is dropped or held twice: every accepted event is in
\* exactly one of channel, dispatcher, mailbox, buffer and log
C13_BoundedMemory ==
    /\ \A i \in Sinks :
          /\ Len(router_chan[i]) <= DEFAULT_SHARD_MAX_BUFFER_CAPACITY
          /\ \A s \in Shards :
                /\ Len(mailbox[i][s]) <= SHARD_MAILBOX_CAPACITY
                /\ Len(shard[i][s].buffer) <= DEFAULT_SHARD_MAX_BUFFER_CAPACITY
          /\ \A n \in 1..Len(sink[i].accepted) :
                Cardinality(Holders(i, sink[i].accepted[n])) = 1
    /\ \A s \in Shards : Len(last_batch[s]) <= DEFAULT_SHARD_MAX_BUFFER_CAPACITY

\* a shard has flushed a batch of max_buffer_capacity events when one more arrived, while
\* the mailbox of a shard is full
C13_Witness ==
    \E i \in Sinks :
       /\ \E s \in Shards :
             /\ Live(i, s)
             /\ Len(last_batch[s]) = DEFAULT_SHARD_MAX_BUFFER_CAPACITY
             /\ shard[i][s].buffer # <<>>
             /\ shard[i][s].buffer[1].offset = last_batch[s][Len(last_batch[s])].offset + 1
       /\ \E s \in Shards : Len(mailbox[i][s]) = SHARD_MAILBOX_CAPACITY

\* C14: once shutdown() has returned, no slot-seen write is in flight any more and the
\* slot-seen table has the row of the highest slot among the accepted events
C14_SlotSeenWrittenAtShutdown ==
    \A i \in Sinks :
       sink[i].pc \in {"closed", "release_failed"} =>
          /\ router[i].inflight = {}
          /\ sink[i].max_slot >= 0 => sink[i].max_slot \in producer_slot_seen

\* C15: the release statement is owner-checked and idempotent: executed with lock id l on
\* any lock table the system reaches, it deletes the row only when the row's lock_id is l
\* and leaves the table as it is otherwise; executed a second time it changes nothing;
\* so the statement of a sink that has shut down, run again, leaves the row of the
\* instance that acquired the lock after it
C15_ReleaseOwnerCheckedIdempotent ==
    /\ \A l \in 1..MaxStarts :
          LET once == DROP_PRODUCER_LOCK(producer_lock, l)
          IN  /\ producer_lock = l => once = 0
              /\ producer_lock # l => once = producer_lock
              /\ DROP_PRODUCER_LOCK(once, l) = once
    /\ \A i \in Sinks :
          sink[i].pc = "closed" =>
             DROP_PRODUCER_LOCK(producer_lock, sink[i].lock_id) = producer_lock

\* A has released its lock and B has acquired the lock with another lock id: the release
\* statement of A finds a row that is not its own
C15_Witness ==
    /\ sink["A"].pc = "closed"
    /\ sink["B"].pc \in {"running", "joining"}
    /\ producer_lock = sink["B"].lock_id
    /\ sink["A"].lock_id \notin {0, producer_lock}

\* C16: the teardown of the dispatcher reaches every shard: when the dispatcher ends
\* after it left its routing loop, every shard daemon that is still running has Shutdown
\* in its mailbox, also when another shard has died
C16_TeardownReachesEveryShard ==
    [][\A i \in Sinks :
         (router[i].pc = "teardown" /\ Terminated(router'[i].pc)) =>
            \A s \in Shards :
               ~Terminated(shard'[i][s].pc) =>
                  \E k \in 1..Len(mailbox'[i][s]) : mailbox'[i][s][k] = Shutdown]_vars

\* C17: fail-fast after a shard died: nothing is delivered to the mailbox of a terminated
\* daemon; when the rotation reaches it the reservation fails, the command in hand is
\* delivered to no shard and the dispatcher goes to its teardown, from which it never
\* routes again; once the dispatcher has terminated a log_* call returns an error and
\* leaves the channel as it is
C17_FailFastAfterShardDeath ==
    /\ [](\A i \in Sinks, s \in Shards :
            Terminated(shard[i][s].pc) => mailbox[i][s] = <<>>)
    /\ [](\A i \in Sinks : sink[i].log_result = ERR => Terminated(router[i].pc))
    /\ [][\A i \in Sinks :
            /\ (/\ router[i].pc = "reserve"
                /\ Terminated(shard[i][router[i].i].pc)
                /\ router'[i].pc # "reserve")
               => /\ router'[i].pc = "teardown"
                  /\ router'[i].msg = Shutdown
                  /\ mailbox' = mailbox
            /\ router[i].pc = "teardown"
               => router'[i].pc \in {"teardown", OK, ERR}
            /\ (/\ sink[i].pc = "running"
                /\ Terminated(router[i].pc)
                /\ sink'[i].pc = "running"
                /\ sink'[i] # sink[i])
               => /\ sink'[i].log_result = ERR
                  /\ sink'[i].accepted = sink[i].accepted
                  /\ router_chan' = router_chan]_vars

\* shard 0 was sent an event, the next shard had died with an error: the dispatcher has
\* shut shard 0 down and terminated, and a log_* call has returned an error
C17_Witness ==
    \E i \in Sinks :
       /\ sink[i].pc = "running"
       /\ sink[i].log_result = ERR
       /\ router[i].pc = ERR
       /\ shard[i][0].pc = OK
       /\ Len(RunRows(0, sink[i].lock_id)) = 1
       /\ shard[i][1].pc = ERR
       /\ Len(sink[i].accepted) >= 2

\* shutdown() can hand Shutdown over: the dispatcher channel has room or is closed
ShutdownCanSend(i) ==
    \/ RouterReceiverDropped(i)
    \/ Len(router_chan[i]) < DEFAULT_SHARD_MAX_BUFFER_CAPACITY

\* C18: shutdown terminates and orphans no task: under fair scheduling, with a database
\* that answers every request with success or error, a sink that is running gets to the
\* point where shutdown() can hand over Shutdown (no wait on a full channel lasts for
\* ever), a shutdown() that has sent Shutdown eventually returns, and when it has
\* returned the dispatcher and all shard daemons have terminated, whether they failed
\* or not
C18_ShutdownTerminates ==
    /\ [](\A i \in Sinks :
            sink[i].pc \in {"closed", "release_failed"} => AllTasksJoined(i))
    /\ \A i \in Sinks :
          /\ (sink[i].pc = "running") ~> (sink[i].pc # "running" \/ ShutdownCanSend(i))
          /\ (sink[i].pc = "joining") ~> (sink[i].pc \in {"closed", "release_failed"})

\* shutdown() has returned after a shard daemon had failed: the dispatcher and the other
\* daemon have terminated with an error too, none is left running
C18_Witness ==
    \E i \in Sinks :
       /\ sink[i].pc \in {"closed", "release_failed"}
       /\ router[i].pc = ERR
       /\ shard[i][0].pc = ERR
       /\ \A s \in Shards : Terminated(shard[i][s].pc)
       /\ Len(sink[i].accepted) = MaxEventsErr

\* C19: slot-seen pipeline of depth one: at most one slot-seen write is outstanding; the
\* dispatcher takes the slot-seen path only for an Insert with a slot above max_slot_seen,
\* spawns the write only when the previous one has completed with success, so the writes
\* are issued in strictly increasing slot order; max_slot_seen never decreases while the
\* dispatcher runs; a failed previous write ends the dispatcher with an error
C19_SlotPipelineDepthOne ==
    /\ [](\A i \in Sinks : Cardinality(router[i].inflight) <= 1)
    /\ [][\A i \in Sinks :
            /\ router'[i].pc \notin {"none", OK, ERR}
               => router'[i].max_slot_seen >= router[i].max_slot_seen
            /\ (router[i].pc = "recv" /\ router'[i].pc = "awaitbg")
               => /\ router'[i].msg.slot > router[i].max_slot_seen
                  /\ router'[i].max_slot_seen = router'[i].msg.slot
            /\ (router[i].pc = "recv" /\ router'[i].pc = "reserve")
               => router'[i].msg.slot <= router[i].max_slot_seen
            /\ router'[i].inflight \ router[i].inflight # {}
               => /\ router[i].pc = "awaitbg"
                  /\ router[i].inflight = {}
                  /\ router[i].bg = OK
                  /\ router'[i].inflight = {router[i].msg.slot}
                  /\ router[i].msg.slot = router[i].max_slot_seen
                  /\ router[i].msg.slot > router[i].bg_slot
            /\ (router[i].pc = "awaitbg" /\ router[i].bg = ERR
                  /\ router'[i].pc # "awaitbg")
               => router'[i].pc = ERR]_vars

\* the write of slot 0 has completed and the write of the highest slot, spawned after
\* it, is the only one outstanding when the dispatcher has routed all events
C19_Witness ==
    \E i \in Sinks :
       /\ 0 \in producer_slot_seen
       /\ router[i].inflight = {MaxSlot}
       /\ router[i].bg = "run"
       /\ router[i].pc = "recv"
       /\ router[i].max_slot_seen = MaxSlot
       /\ Len(sink[i].accepted) = MaxEventsErr
       /\ router_chan[i] = <<>>

\* the Inserts sink i has handed to shard s in this run: persisted, buffered, or in the mailbox
Routed(i, s) ==
    [k \in 1..Len(RunRows(s, sink[i].lock_id)) |-> RunRows(s, sink[i].lock_id)[k].id]
    \o [k \in 1..Len(shard[i][s].buffer) |-> shard[i][s].buffer[k].id]
    \o [k \in 1..Len(SelectSeq(mailbox[i][s], LAMBDA m : m.type = "Insert")) |->
           SelectSeq(mailbox[i][s], LAMBDA m : m.type = "Insert")[k].id]

HoldsLock(i) == sink[i].lock_id # 0 /\ producer_lock = sink[i].lock_id

\* C21: writes happen only under the lock: a shard daemon exists only in a sink whose
\* lock insert succeeded and whose lock row is still there; every step that writes log
\* rows or a period commit is a step of a daemon of the sink that holds the lock before
\* and after the step, the rows carry its lock id, and no other sink's daemon moves; so
\* two instances never both write
C21_WritesOnlyUnderLock ==
    /\ [](\A i \in Sinks :
            ~HoldsLock(i) =>
               /\ router[i].pc \in {"none", OK, ERR}
               /\ \A s \in Shards : shard[i][s].pc \in {"none", OK, ERR})
    /\ [][(log' # log \/ producer_period_commit_log' # producer_period_commit_log) =>
            \E i \in Sinks :
               /\ HoldsLock(i)
               /\ producer_lock' = producer_lock
               /\ sink'[i] = sink[i]
               /\ sink[i].pc \in {"running", "joining"}
               /\ shard'[i] # shard[i]
               /\ \A j \in Sinks \ {i} : shard'[j] = shard[j]
               /\ \A s \in Shards :
                     /\ Len(log'[s]) >= Len(log[s])
                     /\ \A k \in (Len(log[s]) + 1)..Len(log'[s]) :
                           log'[s][k].lock = sink[i].lock_id]_vars

\* both sinks have written to the log, one after the other: A rows and a period commit
\* under its lock, then, after A's release, B rows under a new lock that it still holds
C21_Witness ==
    /\ sink["A"].pc = "closed"
    /\ sink["B"].pc = "joining"
    /\ HoldsLock("B")
    /\ \E s \in Shards : RunRows(s, sink["A"].lock_id) # <<>>
    /\ \E s \in Shards : RunRows(s, sink["B"].lock_id) # <<>>
    /\ producer_period_commit_log # {}

\* C22: the lock row is removed only by shutdown(): a new that fails in offset recovery,
\* after its lock insert succeeded, returns with its lock row still there and no task
\* running; from then on a new for the producer fails for as long as the row is there,
\* and the row goes only when it is deleted by hand (or by the shutdown of a sink that
\* did start)
C22_FailedNewLeavesLock ==
    /\ [](\A i \in Sinks :
            sink[i].pc = "recover_failed" =>
               /\ router[i].pc = "none"
               /\ \A s \in Shards : shard[i][s].pc = "none")
    /\ [][/\ \A i \in Sinks :
               /\ (sink[i].pc = "locked" /\ sink'[i].pc = "recover_failed")
                  => /\ producer_lock = sink[i].lock_id
                     /\ producer_lock' = producer_lock
               /\ (sink[i].pc \in {"recover_failed", "lock_failed"}
                     /\ sink'[i].pc = "locked")
                  => producer_lock = 0
               /\ (sink[i].pc = "recover_failed" /\ sink'[i].pc # "recover_failed")
                  => /\ sink'[i].pc = "locked" <=> producer_lock = 0
                     /\ sink'[i].pc = "lock_failed" <=> producer_lock # 0
          /\ (producer_lock # 0 /\ producer_lock' = 0)
             => \/ \E i \in Sinks : /\ sink[i].pc = "joining"
                                    /\ sink'[i].pc = "closed"
                                    /\ sink[i].lock_id = producer_lock
                \/ /\ sink' = sink
                   /\ \A i \in Sinks : Alive(i) => sink[i].lock_id # producer_lock]_vars

\* a new failed in offset recovery and left its lock row; the next new has failed on
\* that row
C22_Witness ==
    \E i \in Sinks :
       /\ sink[i].pc = "lock_failed"
       /\ producer_lock = 1
       /\ uuid = 1
       /\ router[i].pc = "none"
       /\ log = [s \in Shards |-> <<>>]

RECURSIVE SumOfSizes(_)
SumOfSizes(buffer) ==
    IF buffer = <<>> THEN 0 ELSE Head(buffer).size + SumOfSizes(Tail(buffer))

\* the daemon of shard s of sink i handles the command at the head of its mailbox
HandlesCommand(i, s) ==
    /\ shard[i][s].pc = "recv"
    /\ shard'[i][s].pc # "recv"
    /\ mailbox[i][s] # <<>>

\* C23: flush never submits an empty batch and keeps the batch state consistent: in every
\* state of a daemon the statement list is as long as the buffer and curr_batch_byte_size
\* is the sum of the sizes of the buffered events; handling a command with an empty buffer
\* writes no row and cannot fail; a batch is the whole buffer, and after it the daemon
\* holds only the event just pushed (or has ended Ok on Shutdown); a daemon that was due
\* to flush a non-empty buffer and wrote nothing has ended with the error
C23_FlushConsistent ==
    /\ [](\A i \in Sinks : \A s \in Shards :
            /\ shard[i][s].statements = Len(shard[i][s].buffer)
            /\ shard[i][s].curr_batch_byte_size = SumOfSizes(shard[i][s].buffer))
    /\ [][\A i \in Sinks : \A s \in Shards :
            HandlesCommand(i, s) =>
               LET sh == shard[i][s]
                   msg == Head(mailbox[i][s])
                   due == IF msg.type = "Insert" THEN need_flush(sh, msg.size) ELSE TRUE
               IN  /\ sh.buffer = <<>> =>
                         /\ log' = log
                         /\ shard'[i][s].pc # ERR
                   /\ log' # log =>
                         /\ due /\ sh.buffer # <<>>
                         /\ log' = [log EXCEPT ![s] = @ \o sh.buffer]
                         /\ IF msg.type = "Insert"
                            THEN /\ Len(shard'[i][s].buffer) = 1
                                 /\ shard'[i][s].statements = 1
                                 /\ shard'[i][s].curr_batch_byte_size = msg.size
                            ELSE /\ shard'[i][s].pc = OK
                                 /\ shard'[i][s].buffer = <<>>
                   /\ (due /\ sh.buffer # <<>> /\ log' = log) => shard'[i][s].pc = ERR
                   /\ shard'[i][s].pc = ERR => log' = log
                   /\ (~due) =>
                         /\ log' = log
                         /\ shard'[i][s].buffer = Append(sh.buffer, shard'[i][s].buffer[Len(sh.buffer) + 1])]_vars

\* a daemon has flushed its buffer on the byte-size limit and buffers the large event that
\* triggered the flush, while the other daemon has ended with an error
C23_Witness ==
    \E i \in Sinks : \E s, t \in Shards :
       /\ Len(last_batch[s]) = 1
       /\ s # t
       /\ Len(shard[i][s].buffer) = 1
       /\ shard[i][s].statements = 1
       /\ shard[i][s].curr_batch_byte_size = MaxEventSize
       /\ shard[i][t].pc = ERR

RECURSIVE SumOver(_, _)
SumOver(f, S) ==
    IF S = {} THEN 0
    ELSE LET x == CHOOSE y \in S : TRUE IN f[x] + SumOver(f, S \ {x})

\* the events of sink i that sit in a shard mailbox or in a shard buffer
Queued(i) ==
    SumOver([s \in Shards |->
               Len(shard[i][s].buffer)
               + Len(SelectSeq(mailbox[i][s], LAMBDA m : m.type = "Insert"))], Shards)

\* the dispatcher of sink i has sent an Insert whose increment it has not yet made
Uncounted(i) == IF router[i].pc = "lag_inc" THEN 1 ELSE 0

\* the rows the step appends to the log
Written == SumOver([s \in Shards |-> Len(log'[s]) - Len(log[s])], Shards)

\* C24: the queued-batch-items gauge never goes negative, whatever the daemons do between
\* the dispatcher's permit.send and its increment: the gauge covers every event that is
\* in a mailbox or a buffer except the one just sent; it goes up by 1 when the dispatcher
\* leaves the increment after a send, down by the batch length at each successful flush,
\* and is changed by nothing else; the event whose increment is still to come is never in
\* a flushed batch; after a shutdown in which the dispatcher and every daemon ended Ok
\* the gauge is back at 0, its initial value
C24_LagNeverNegative ==
    /\ [](\A i \in Sinks :
            /\ batch_request_lag[i] >= 0
            /\ batch_request_lag[i] + Uncounted(i) >= Queued(i)
            /\ (sink[i].pc = "closed" /\ router[i].pc = OK
                  /\ \A s \in Shards : shard[i][s].pc = OK)
               => batch_request_lag[i] = 0)
    /\ [][\A i \in Sinks :
            /\ batch_request_lag'[i] =
                  batch_request_lag[i]
                  + (IF router[i].pc = "lag_inc" /\ router'[i].pc # "lag_inc" THEN 1 ELSE 0)
                  - (IF shard'[i] # shard[i] THEN Written ELSE 0)
            /\ (\E s \in Shards : Len(mailbox'[i][s]) > Len(mailbox[i][s])
                                   /\ mailbox'[i][s][Len(mailbox'[i][s])].type = "Insert")
               => /\ router'[i].pc = "lag_inc"
                  /\ batch_request_lag'[i] = batch_request_lag[i]
            /\ \A s \in Shards :
                  (log'[s] # log[s] /\ shard'[i][s] # shard[i][s] /\ router[i].pc = "lag_inc")
                  => \A k \in 1..Len(shard[i][s].buffer) :
                        shard[i][s].buffer[k].id # router[i].msg.id]_vars

\* a daemon has taken an event out of its mailbox, flushed the batch before it and
\* buffered the event, all before the dispatcher made the increment for it: the gauge is
\* one below the number of queued events
C24_Witness ==
    \E i \in Sinks : \E s \in Shards :
       /\ router[i].pc = "lag_inc"
       /\ Len(shard[i][s].buffer) = 1
       /\ shard[i][s].buffer[1].id = router[i].msg.id
       /\ last_batch[s] # <<>>
       /\ batch_request_lag[i] = Queued(i) - 1

====
